---- MODULE Spec2Model ----
(***************************************************************************)
(* A model of datetimerange/_core.py: the DateTimeRange value type, its    *)
(* interval algebra (containment, intersection, subtract, encompass,       *)
(* split) and its range(step) generator.                                   *)
(*                                                                         *)
(* Values.  A datetime is a record [kind, days, seconds, microseconds,     *)
(* tzinfo]: the proleptic Gregorian ordinal of its UTC day, the second of  *)
(* that day and the microsecond of that second, with the tzinfo it carries.*)
(* All datetimes are timezone-aware (what the normaliser hands back for    *)
(* the inputs enumerated here), so two datetimes always compare, and they  *)
(* compare by their UTC instant as Python's aware datetimes do.  A         *)
(* timedelta is Python's normalised triple (days, seconds, microseconds)   *)
(* with 0 <= seconds < 86400 and 0 <= microseconds < 1000000.  A           *)
(* relativedelta is dateutil's record of signed components, integers only. *)
(* None is the record [kind |-> "None"].                                   *)
(***************************************************************************)
EXTENDS Integers, Sequences, FiniteSets, TLC

VARIABLES self, x, call, gen

vars == <<self, x, call, gen>>

-----------------------------------------------------------------------------
(* Units of datetime.timedelta and dateutil.relativedelta.                 *)

UsPerSecond == 1000000
SecondsPerMinute == 60
MinutesPerHour == 60
HoursPerDay == 24
MonthsPerYear == 12
SecondsPerDay == SecondsPerMinute * MinutesPerHour * HoursPerDay

None == [kind |-> "None"]

IsNone(v) == v.kind = "None"

Abs(n) == IF n < 0 THEN -n ELSE n

Sign(n) == IF n < 0 THEN -1 ELSE 1

-----------------------------------------------------------------------------
(* datetime.timedelta                                                      *)

\* timedelta(days=d, seconds=s, microseconds=u): the constructor normalises,
\* carrying microseconds into seconds and seconds into days (floor division).
Timedelta(d, s, u) ==
    LET s1 == s + (u \div UsPerSecond)
    IN  [kind |-> "timedelta",
         days |-> d + (s1 \div SecondsPerDay),
         seconds |-> s1 % SecondsPerDay,
         microseconds |-> u % UsPerSecond]

\* -td
TimedeltaNeg(td) == Timedelta(-td.days, -td.seconds, -td.microseconds)

\* int(td.total_seconds()): total_seconds() is the signed duration in seconds
\* and int() truncates it toward zero.
IntTotalSeconds(td) ==
    LET whole == td.days * SecondsPerDay + td.seconds
    IN  IF whole < 0 /\ td.microseconds > 0 THEN whole + 1 ELSE whole

\* The sign of a timedelta as Python orders it against timedelta(0).
TimedeltaSign(td) ==
    IF td.days < 0 THEN -1
    ELSE IF td.days > 0 \/ td.seconds > 0 \/ td.microseconds > 0 THEN 1
    ELSE 0

\* The duration in microseconds; td.total_seconds() is this over 10^6.
TotalMicroseconds(td) ==
    (td.days * SecondsPerDay + td.seconds) * UsPerSecond + td.microseconds

\* td // n and td * k for integers n, k: on the microseconds, // flooring.
TimedeltaFloorDiv(td, n) == Timedelta(0, 0, TotalMicroseconds(td) \div n)

TimedeltaMul(td, k) == Timedelta(0, 0, TotalMicroseconds(td) * k)

\* lhs < rhs, lhs <= rhs on timedeltas.
TimedeltaLT(a, b) ==
    \/ a.days < b.days
    \/ a.days = b.days /\ a.seconds < b.seconds
    \/ a.days = b.days /\ a.seconds = b.seconds /\ a.microseconds < b.microseconds

TimedeltaLE(a, b) == ~TimedeltaLT(b, a)

-----------------------------------------------------------------------------
(* datetime.datetime (timezone-aware)                                      *)

Datetime(d, s, u, tz) ==
    LET s1 == s + (u \div UsPerSecond)
    IN  [kind |-> "datetime",
         days |-> d + (s1 \div SecondsPerDay),
         seconds |-> s1 % SecondsPerDay,
         microseconds |-> u % UsPerSecond,
         tzinfo |-> tz]

\* a < b, a <= b, a == b on aware datetimes: by UTC instant, whatever the tzinfo.
DtLT(a, b) ==
    \/ a.days < b.days
    \/ a.days = b.days /\ a.seconds < b.seconds
    \/ a.days = b.days /\ a.seconds = b.seconds /\ a.microseconds < b.microseconds

DtLE(a, b) == ~DtLT(b, a)

DtEq(a, b) == ~DtLT(a, b) /\ ~DtLT(b, a)

\* Python's == on Optional[datetime]: None equals only None.
OptDtEq(a, b) ==
    IF IsNone(a) \/ IsNone(b) THEN IsNone(a) /\ IsNone(b) ELSE DtEq(a, b)

\* Mutants of max and min: the first argument, whatever the order.
DtMax_first(a, b) == a

DtMin_first(a, b) == a

\* max(a, b) and min(a, b): the first argument wins a tie.
DtMax(a, b) == IF DtLT(a, b) THEN b ELSE a

DtMin(a, b) == IF DtLT(b, a) THEN b ELSE a

\* a - b on datetimes: a timedelta.
DtSub(a, b) ==
    Timedelta(a.days - b.days, a.seconds - b.seconds, a.microseconds - b.microseconds)

\* dt + td, dt - td: the same tzinfo, the instant shifted.
DtAddTimedelta(dt, td) ==
    Datetime(dt.days + td.days, dt.seconds + td.seconds,
             dt.microseconds + td.microseconds, dt.tzinfo)

-----------------------------------------------------------------------------
(* The proleptic Gregorian calendar of datetime.date                       *)

IsLeap(y) == y % 4 = 0 /\ (y % 100 # 0 \/ y % 400 = 0)

\* calendar.monthrange(y, m)[1]
DaysInMonth(y, m) ==
    IF m = 2 THEN (IF IsLeap(y) THEN 29 ELSE 28)
    ELSE IF m \in {4, 6, 9, 11} THEN 30
    ELSE 31

\* The days of year y before its month m.
RECURSIVE DaysBeforeMonth(_, _)
DaysBeforeMonth(y, m) ==
    IF m <= 1 THEN 0 ELSE DaysBeforeMonth(y, m - 1) + DaysInMonth(y, m - 1)

\* The days before January 1st of year y.
DaysBeforeYear(y) ==
    LET p == y - 1 IN p * 365 + (p \div 4) - (p \div 100) + (p \div 400)

\* date(y, m, d).toordinal()
YmdToOrdinal(y, m, d) == DaysBeforeYear(y) + DaysBeforeMonth(y, m) + d

\* The year ordinal day n falls in, and the month the r-th day of year y
\* falls in.
YearOfOrdinal(n) ==
    CHOOSE c \in (((n - 1) \div 366) + 1) .. (((n - 1) \div 365) + 1) :
        DaysBeforeYear(c) < n /\ n <= DaysBeforeYear(c + 1)

MonthOfDay(y, r) ==
    CHOOSE c \in 1 .. MonthsPerYear :
        DaysBeforeMonth(y, c) < r /\ r <= DaysBeforeMonth(y, c) + DaysInMonth(y, c)

\* The date of the r-th day of year y.
DayOfYearToYmd(y, r) ==
    [year |-> y, month |-> MonthOfDay(y, r), day |-> r - DaysBeforeMonth(y, MonthOfDay(y, r))]

\* date.fromordinal(n), as [year, month, day].
OrdinalToYmd(n) == DayOfYearToYmd(YearOfOrdinal(n), n - DaysBeforeYear(YearOfOrdinal(n)))

-----------------------------------------------------------------------------
(* tzinfo: fixed offsets from UTC                                          *)

TZ == {"UTC", "JST"}

\* tzinfo.utcoffset(), in seconds.
UtcOffsetSeconds(tz) ==
    IF tz = "JST" THEN 9 * MinutesPerHour * SecondsPerMinute ELSE 0

-----------------------------------------------------------------------------
(* dateutil.relativedelta.relativedelta (relative part, integer components) *)

\* One step of relativedelta._fix: a component beyond its limit keeps the
\* remainder, with its sign, and carries the quotient into the next unit.
FixRem(v, base) == IF Abs(v) > base - 1 THEN Sign(v) * (Abs(v) % base) ELSE v

FixCarry(v, base) == IF Abs(v) > base - 1 THEN Sign(v) * (Abs(v) \div base) ELSE 0

\* relativedelta(years=, months=, days=, hours=, minutes=, seconds=,
\* microseconds=): the constructor stores the components and calls _fix().
Relativedelta(years, months, days, hours, minutes, seconds, microseconds) ==
    LET us == FixRem(microseconds, UsPerSecond)
        s0 == seconds + FixCarry(microseconds, UsPerSecond)
        s  == FixRem(s0, SecondsPerMinute)
        m0 == minutes + FixCarry(s0, SecondsPerMinute)
        m  == FixRem(m0, MinutesPerHour)
        h0 == hours + FixCarry(m0, MinutesPerHour)
        h  == FixRem(h0, HoursPerDay)
        d  == days + FixCarry(h0, HoursPerDay)
        mo == FixRem(months, MonthsPerYear)
        y  == years + FixCarry(months, MonthsPerYear)
    IN  [kind |-> "relativedelta", years |-> y, months |-> mo, days |-> d,
         hours |-> h, minutes |-> m, seconds |-> s, microseconds |-> us]

\* rd.normalized(): with integer components nothing cascades down, and the
\* constructor's _fix() carries the overflow back up.
Normalized(rd) ==
    Relativedelta(rd.years, rd.months, rd.days, rd.hours, rd.minutes,
                  rd.seconds, rd.microseconds)

\* dt + rd (relativedelta.__radd__): years and months move the local calendar
\* date, the day clipped to the length of the month reached; the other
\* components are then added as a timedelta.
DtAddRelativedelta(dt, rd) ==
    LET off   == UtcOffsetSeconds(dt.tzinfo)
        local == Datetime(dt.days, dt.seconds + off, dt.microseconds, dt.tzinfo)
        ymd   == OrdinalToYmd(local.days)
        m0    == ymd.month + rd.months
        year  == ymd.year + rd.years
                   + (IF m0 > MonthsPerYear THEN 1 ELSE IF m0 < 1 THEN -1 ELSE 0)
        month == IF m0 > MonthsPerYear THEN m0 - MonthsPerYear
                 ELSE IF m0 < 1 THEN m0 + MonthsPerYear ELSE m0
        dim   == DaysInMonth(year, month)
        day   == IF dim < ymd.day THEN dim ELSE ymd.day
        secs  == (rd.hours * MinutesPerHour + rd.minutes) * SecondsPerMinute + rd.seconds
    IN  Datetime(YmdToOrdinal(year, month, day) + rd.days,
                 local.seconds + secs - off,
                 local.microseconds + rd.microseconds, dt.tzinfo)

\* dt + step for either kind of step.
DtAdd(dt, step) ==
    IF step.kind = "timedelta" THEN DtAddTimedelta(dt, step)
    ELSE DtAddRelativedelta(dt, step)

\* -rd: every component negated.
RelativedeltaNeg(rd) ==
    Relativedelta(-rd.years, -rd.months, -rd.days, -rd.hours, -rd.minutes,
                  -rd.seconds, -rd.microseconds)

\* dt - step: dt + (-step), for a timedelta and (relativedelta.__rsub__) for
\* a relativedelta.
DtSubStep(dt, step) ==
    IF step.kind = "timedelta" THEN DtAddTimedelta(dt, TimedeltaNeg(step))
    ELSE DtAddRelativedelta(dt, RelativedeltaNeg(step))

-----------------------------------------------------------------------------
(* Module-level helpers of _core.py                                        *)

_to_norm_relativedelta(td) ==
    IF td.kind = "relativedelta" THEN Normalized(td)
    ELSE Normalized(Relativedelta(0, 0, 0, 0, 0, IntTotalSeconds(td), td.microseconds))

_compare_relativedelta(lhs, rhs) ==
    IF lhs.years < rhs.years THEN -1
    ELSE IF lhs.years > rhs.years THEN 1
    ELSE IF lhs.months < rhs.months THEN -1
    ELSE IF lhs.months > rhs.months THEN 1
    ELSE IF lhs.days < rhs.days THEN -1
    ELSE IF lhs.days > rhs.days THEN 1
    ELSE IF lhs.hours < rhs.hours THEN -1
    ELSE IF lhs.hours > rhs.hours THEN 1
    ELSE IF lhs.minutes < rhs.minutes THEN -1
    ELSE IF lhs.minutes > rhs.minutes THEN 1
    ELSE IF lhs.seconds < rhs.seconds THEN -1
    ELSE IF lhs.seconds > rhs.seconds THEN 1
    ELSE IF lhs.microseconds < rhs.microseconds THEN -1
    ELSE IF lhs.microseconds > rhs.microseconds THEN 1
    ELSE 0

_compare_timedelta(lhs, seconds) ==
    _compare_relativedelta(_to_norm_relativedelta(lhs),
                           Relativedelta(0, 0, 0, 0, 0, seconds, 0))

-----------------------------------------------------------------------------
(* Values returned or raised by the methods                                *)

Raise(exc, msg) == [kind |-> "raise", exc |-> exc, msg |-> msg]

IsRaise(v) == v.kind = "raise"

Bool(b) == [kind |-> "bool", value |-> b]

List(items) == [kind |-> "list", items |-> items]

\* A string no parser accepts as a date and time.
BadStr == [kind |-> "str", text |-> "aaa"]

DEFAULT_TIME_FORMAT == "%Y-%m-%dT%H:%M:%S%z"

\* typepy's DateTime(value, strict_level=MIN, timezone=timezone).convert():
\* None stays None, a datetime passes through (an aware one is expressed in
\* timezone when one is given: the same instant, the other tzinfo), an
\* unparsable string is a TypeConversionError, re-raised as ValueError.
_normalize_datetime_value(value, timezone) ==
    IF IsNone(value) THEN None
    ELSE IF value.kind = "datetime"
         THEN (IF IsNone(timezone) THEN value ELSE [value EXCEPT !.tzinfo = timezone.name])
    ELSE Raise("ValueError", "invalid datetime")

-----------------------------------------------------------------------------
(* class DateTimeRange                                                     *)

\* The object __init__ leaves behind, its endpoints already normalised.  id
\* tells the objects apart, as Python's id() does: "self" and "x" are the two
\* objects the caller keeps in variables, "fresh" is one that did not exist
\* before the expression that built it.
DateTimeRange(start_datetime, end_datetime, start_time_format, end_time_format) ==
    [kind |-> "DateTimeRange",
     id |-> "fresh",
     start_datetime |-> start_datetime,
     end_datetime |-> end_datetime,
     start_time_format |-> start_time_format,
     end_time_format |-> end_time_format,
     is_output_elapse |-> FALSE,
     separator |-> " - "]

\* The object o once the caller has bound it to the variable name.
Bound(o, name) == [o EXCEPT !.id = name]

is_set(o) == ~IsNone(o.start_datetime) /\ ~IsNone(o.end_datetime)

\* Mutant of validate_time_inversion: start > end goes unnoticed.
validate_time_inversion_no_order(o) ==
    IF ~is_set(o) THEN Raise("TypeError", "")
    ELSE IF o.start_datetime.tzinfo # o.end_datetime.tzinfo
         THEN Raise("ValueError", "timezone mismatch")
    ELSE None

\* Mutant of validate_time_inversion: start == end counts as an inversion.
validate_time_inversion_strict(o) ==
    IF ~is_set(o) THEN Raise("TypeError", "")
    ELSE IF o.start_datetime.tzinfo # o.end_datetime.tzinfo
         THEN Raise("ValueError", "timezone mismatch")
    ELSE IF DtLE(o.end_datetime, o.start_datetime)
         THEN Raise("ValueError", "time inversion found")
    ELSE None

\* None when the check passes, the exception raised otherwise.
validate_time_inversion(o) ==
    IF ~is_set(o) THEN Raise("TypeError", "")
    ELSE IF o.start_datetime.tzinfo # o.end_datetime.tzinfo
         THEN Raise("ValueError", "timezone mismatch")
    ELSE IF DtLT(o.end_datetime, o.start_datetime)
         THEN Raise("ValueError", "time inversion found")
    ELSE None

\* Mutant of is_valid_timerange: whatever is set is valid.
is_valid_timerange_is_set(o) == is_set(o)

is_valid_timerange(o) ==
    IF IsRaise(validate_time_inversion(o)) THEN FALSE ELSE is_set(o)

\* The timedelta property: end - start, or TypeError.
timedelta(o) ==
    IF IsNone(o.start_datetime) THEN Raise("TypeError", "Must set start_datetime")
    ELSE IF IsNone(o.end_datetime) THEN Raise("TypeError", "Must set end_datetime")
    ELSE DtSub(o.end_datetime, o.start_datetime)

\* Mutant of __contains__: the end of the range is excluded for an instant.
__contains___open_end(o, v) ==
    LET e == validate_time_inversion(o)
    IN  IF IsRaise(e) THEN e
        ELSE IF v.kind = "DateTimeRange"
        THEN LET ev == validate_time_inversion(v)
             IN  IF IsRaise(ev) THEN ev
                 ELSE Bool(DtLE(o.start_datetime, v.start_datetime)
                           /\ DtLE(v.end_datetime, o.end_datetime))
        ELSE IF v.kind = "str" THEN Raise("ValueError", "Unknown string format")
        ELSE IF IsNone(v) THEN Raise("TypeError", "'<=' not supported")
        ELSE Bool(DtLE(o.start_datetime, v) /\ DtLT(v, o.end_datetime))

\* v in o, for v a DateTimeRange, a datetime, a string or None.
__contains__(o, v) ==
    LET e == validate_time_inversion(o)
    IN  IF IsRaise(e) THEN e
        ELSE IF v.kind = "DateTimeRange"
        THEN LET ev == validate_time_inversion(v)
             IN  IF IsRaise(ev) THEN ev
                 ELSE Bool(DtLE(o.start_datetime, v.start_datetime)
                           /\ DtLE(v.end_datetime, o.end_datetime))
        ELSE IF v.kind = "str" THEN Raise("ValueError", "Unknown string format")
        ELSE IF IsNone(v) THEN Raise("TypeError", "'<=' not supported")
        ELSE Bool(DtLE(o.start_datetime, v) /\ DtLE(v, o.end_datetime))

intersection(o, xo, intersection_threshold) ==
    LET e  == validate_time_inversion(o)
        ex == validate_time_inversion(xo)
    IN  IF IsRaise(e) THEN e
        ELSE IF IsRaise(ex) THEN ex
        ELSE
        LET hit == \/ __contains__(o, xo.start_datetime).value
                   \/ __contains__(xo, o.start_datetime).value
            start_datetime == IF hit THEN DtMax(o.start_datetime, xo.start_datetime)
                              ELSE None
            end_datetime == IF hit THEN DtMin(o.end_datetime, xo.end_datetime)
                            ELSE None
        IN  IF IsNone(intersection_threshold) \/ IsNone(start_datetime)
            THEN DateTimeRange(start_datetime, end_datetime,
                               o.start_time_format, o.end_time_format)
            ELSE IF _compare_relativedelta(
                        _to_norm_relativedelta(DtSub(end_datetime, start_datetime)),
                        _to_norm_relativedelta(intersection_threshold)) < 0
            THEN DateTimeRange(None, None, o.start_time_format, o.end_time_format)
            ELSE DateTimeRange(start_datetime, end_datetime,
                               o.start_time_format, o.end_time_format)

is_intersection(o, xo, intersection_threshold) ==
    LET r == intersection(o, xo, intersection_threshold)
    IN  IF IsRaise(r) THEN r ELSE Bool(is_set(r))

\* Mutant of subtract: the test for an overlap reaching self's end is missing,
\* and such an overlap is handled as an interior one.
subtract_no_end_case(o, xo) ==
    LET overlap == intersection(o, xo, None)
    IN  IF IsRaise(overlap) THEN overlap
        ELSE IF ~is_set(overlap) \/ TimedeltaSign(timedelta(overlap)) <= 0
        THEN List(<<DateTimeRange(o.start_datetime, o.end_datetime,
                                  o.start_time_format, o.end_time_format)>>)
        ELSE IF DtEq(overlap.start_datetime, o.start_datetime)
                /\ DtEq(overlap.end_datetime, o.end_datetime)
        THEN List(<<>>)
        ELSE IF DtEq(overlap.start_datetime, o.start_datetime)
        THEN List(<<DateTimeRange(overlap.end_datetime, o.end_datetime,
                                  o.start_time_format, o.end_time_format)>>)
        ELSE List(<<DateTimeRange(o.start_datetime, overlap.start_datetime,
                                  o.start_time_format, o.end_time_format),
                    DateTimeRange(overlap.end_datetime, o.end_datetime,
                                  o.start_time_format, o.end_time_format)>>)

\* Mutant of subtract: an overlap at self's start is not cut off, the
\* returned range is the whole of self.
subtract_keeps_start(o, xo) ==
    LET overlap == intersection(o, xo, None)
    IN  IF IsRaise(overlap) THEN overlap
        ELSE IF ~is_set(overlap) \/ TimedeltaSign(timedelta(overlap)) <= 0
        THEN List(<<DateTimeRange(o.start_datetime, o.end_datetime,
                                  o.start_time_format, o.end_time_format)>>)
        ELSE IF DtEq(overlap.start_datetime, o.start_datetime)
                /\ DtEq(overlap.end_datetime, o.end_datetime)
        THEN List(<<>>)
        ELSE IF DtEq(overlap.start_datetime, o.start_datetime)
        THEN List(<<DateTimeRange(o.start_datetime, o.end_datetime,
                                  o.start_time_format, o.end_time_format)>>)
        ELSE IF DtEq(overlap.end_datetime, o.end_datetime)
        THEN List(<<DateTimeRange(o.start_datetime, overlap.start_datetime,
                                  o.start_time_format, o.end_time_format)>>)
        ELSE List(<<DateTimeRange(o.start_datetime, overlap.start_datetime,
                                  o.start_time_format, o.end_time_format),
                    DateTimeRange(overlap.end_datetime, o.end_datetime,
                                  o.start_time_format, o.end_time_format)>>)

subtract(o, xo) ==
    LET overlap == intersection(o, xo, None)
    IN  IF IsRaise(overlap) THEN overlap
        ELSE IF ~is_set(overlap) \/ TimedeltaSign(timedelta(overlap)) <= 0
        THEN List(<<DateTimeRange(o.start_datetime, o.end_datetime,
                                  o.start_time_format, o.end_time_format)>>)
        ELSE IF DtEq(overlap.start_datetime, o.start_datetime)
                /\ DtEq(overlap.end_datetime, o.end_datetime)
        THEN List(<<>>)
        ELSE IF DtEq(overlap.start_datetime, o.start_datetime)
        THEN List(<<DateTimeRange(overlap.end_datetime, o.end_datetime,
                                  o.start_time_format, o.end_time_format)>>)
        ELSE IF DtEq(overlap.end_datetime, o.end_datetime)
        THEN List(<<DateTimeRange(o.start_datetime, overlap.start_datetime,
                                  o.start_time_format, o.end_time_format)>>)
        ELSE List(<<DateTimeRange(o.start_datetime, overlap.start_datetime,
                                  o.start_time_format, o.end_time_format),
                    DateTimeRange(overlap.end_datetime, o.end_datetime,
                                  o.start_time_format, o.end_time_format)>>)

encompass(o, xo) ==
    LET e  == validate_time_inversion(o)
        ex == validate_time_inversion(xo)
    IN  IF IsRaise(e) THEN e
        ELSE IF IsRaise(ex) THEN ex
        ELSE DateTimeRange(DtMin(o.start_datetime, xo.start_datetime),
                           DtMax(o.end_datetime, xo.end_datetime),
                           o.start_time_format, o.end_time_format)

\* Mutant of split: a separator equal to an endpoint cuts the range too.
split_at_endpoint(o, separator) ==
    LET e == validate_time_inversion(o)
        separatingseparation == _normalize_datetime_value(separator, None)
    IN  IF IsRaise(e) THEN e
        ELSE IF IsRaise(separatingseparation) THEN separatingseparation
        ELSE IF IsNone(separatingseparation) THEN Raise("AssertionError", "")
        ELSE IF ~__contains__(o, separatingseparation).value
        THEN List(<<DateTimeRange(o.start_datetime, o.end_datetime,
                                  o.start_time_format, o.end_time_format)>>)
        ELSE List(<<DateTimeRange(o.start_datetime, separatingseparation,
                                  o.start_time_format, o.end_time_format),
                    DateTimeRange(separatingseparation, o.end_datetime,
                                  o.start_time_format, o.end_time_format)>>)

\* Mutant of split: a range that is not split is returned itself, not a
\* copy of it.
split_returns_self(o, separator) ==
    LET e == validate_time_inversion(o)
        separatingseparation == _normalize_datetime_value(separator, None)
    IN  IF IsRaise(e) THEN e
        ELSE IF IsRaise(separatingseparation) THEN separatingseparation
        ELSE IF IsNone(separatingseparation) THEN Raise("AssertionError", "")
        ELSE IF \/ ~__contains__(o, separatingseparation).value
                \/ DtEq(separatingseparation, o.start_datetime)
                \/ DtEq(separatingseparation, o.end_datetime)
        THEN List(<<o>>)
        ELSE List(<<DateTimeRange(o.start_datetime, separatingseparation,
                                  o.start_time_format, o.end_time_format),
                    DateTimeRange(separatingseparation, o.end_datetime,
                                  o.start_time_format, o.end_time_format)>>)

split(o, separator) ==
    LET e == validate_time_inversion(o)
        separatingseparation == _normalize_datetime_value(separator, None)
    IN  IF IsRaise(e) THEN e
        ELSE IF IsRaise(separatingseparation) THEN separatingseparation
        ELSE IF IsNone(separatingseparation) THEN Raise("AssertionError", "")
        ELSE IF \/ ~__contains__(o, separatingseparation).value
                \/ DtEq(separatingseparation, o.start_datetime)
                \/ DtEq(separatingseparation, o.end_datetime)
        THEN List(<<DateTimeRange(o.start_datetime, o.end_datetime,
                                  o.start_time_format, o.end_time_format)>>)
        ELSE List(<<DateTimeRange(o.start_datetime, separatingseparation,
                                  o.start_time_format, o.end_time_format),
                    DateTimeRange(separatingseparation, o.end_datetime,
                                  o.start_time_format, o.end_time_format)>>)

\* A tzinfo object, by its name.
Tzinfo(name) == [kind |-> "tzinfo", name |-> name]

\* The timezone property: that of start, or else of end, or else None.
timezone(o) ==
    IF ~IsNone(o.start_datetime) THEN Tzinfo(o.start_datetime.tzinfo)
    ELSE IF ~IsNone(o.end_datetime) THEN Tzinfo(o.end_datetime.tzinfo)
    ELSE None

\* Mutant of __eq__: the start alone decides.
__eq___start_only(o, other) ==
    IF other.kind # "DateTimeRange" THEN Bool(FALSE)
    ELSE Bool(OptDtEq(o.start_datetime, other.start_datetime))

\* self == other
__eq__(o, other) ==
    IF other.kind # "DateTimeRange" THEN Bool(FALSE)
    ELSE Bool(/\ OptDtEq(o.start_datetime, other.start_datetime)
              /\ OptDtEq(o.end_datetime, other.end_datetime))

\* self != other
__ne__(o, other) ==
    IF other.kind # "DateTimeRange" THEN Bool(TRUE)
    ELSE Bool(\/ ~OptDtEq(o.start_datetime, other.start_datetime)
              \/ ~OptDtEq(o.end_datetime, other.end_datetime))

\* Mutant of __add__: an absent endpoint is rejected, whichever it is.
__add___both_needed(o, other) ==
    IF IsNone(o.start_datetime) \/ IsNone(o.end_datetime)
    THEN Raise("TypeError", "range is not set")
    ELSE DateTimeRange(DtAdd(o.start_datetime, other), DtAdd(o.end_datetime, other),
                       DEFAULT_TIME_FORMAT, DEFAULT_TIME_FORMAT)

\* self + other: a new DateTimeRange(start_datetime, end_datetime), whose
\* format strings are the defaults of __init__.
__add__(o, other) ==
    IF IsNone(o.start_datetime) /\ IsNone(o.end_datetime)
    THEN Raise("TypeError", "range is not set")
    ELSE LET start_datetime == IF IsNone(o.start_datetime) THEN None
                               ELSE DtAdd(o.start_datetime, other)
             end_datetime   == IF IsNone(o.end_datetime) THEN None
                               ELSE DtAdd(o.end_datetime, other)
         IN  DateTimeRange(_normalize_datetime_value(start_datetime, None),
                           _normalize_datetime_value(end_datetime, None),
                           DEFAULT_TIME_FORMAT, DEFAULT_TIME_FORMAT)

\* self += other: the object afterwards (it is also what is returned), or
\* the exception.
__iadd__(o, other) ==
    IF IsNone(o.start_datetime) /\ IsNone(o.end_datetime)
    THEN Raise("TypeError", "range is not set")
    ELSE [o EXCEPT
             !.start_datetime =
                 IF IsNone(@) THEN @
                 ELSE _normalize_datetime_value(DtAdd(@, other), timezone(o)),
             !.end_datetime =
                 IF IsNone(@) THEN @
                 ELSE _normalize_datetime_value(DtAdd(@, other), timezone(o))]

\* self - other
__sub__(o, other) ==
    IF IsNone(o.start_datetime) /\ IsNone(o.end_datetime)
    THEN Raise("TypeError", "range is not set")
    ELSE LET start_datetime == IF IsNone(o.start_datetime) THEN None
                               ELSE DtSubStep(o.start_datetime, other)
             end_datetime   == IF IsNone(o.end_datetime) THEN None
                               ELSE DtSubStep(o.end_datetime, other)
         IN  DateTimeRange(_normalize_datetime_value(start_datetime, None),
                           _normalize_datetime_value(end_datetime, None),
                           DEFAULT_TIME_FORMAT, DEFAULT_TIME_FORMAT)

\* self -= other
__isub__(o, other) ==
    IF IsNone(o.start_datetime) /\ IsNone(o.end_datetime)
    THEN Raise("TypeError", "range is not set")
    ELSE [o EXCEPT
             !.start_datetime =
                 IF IsNone(@) THEN @
                 ELSE _normalize_datetime_value(DtSubStep(@, other), timezone(o)),
             !.end_datetime =
                 IF IsNone(@) THEN @
                 ELSE _normalize_datetime_value(DtSubStep(@, other), timezone(o))]

\* A float holding a number of seconds, kept as the microseconds it stands for.
Float(us) == [kind |-> "float", microseconds |-> us]

\* Mutant of get_timedelta_second: the length of the range, never negative.
get_timedelta_second_abs(o) ==
    IF IsRaise(timedelta(o)) THEN timedelta(o)
    ELSE Float(Abs(TotalMicroseconds(timedelta(o))))

\* self.timedelta.total_seconds()
get_timedelta_second(o) ==
    IF IsRaise(timedelta(o)) THEN timedelta(o)
    ELSE Float(TotalMicroseconds(timedelta(o)))

\* truncate(percentage), percentage an integer: the object afterwards, or the
\* exception.  int(percentage / 2) truncates the half.
truncate(o, percentage) ==
    LET e == validate_time_inversion(o)
    IN  IF IsRaise(e) THEN e
        ELSE IF percentage < 0
             THEN Raise("ValueError", "discard_percent must be greater or equal to zero")
        ELSE IF percentage = 0 THEN o
        ELSE LET discard_time ==
                     TimedeltaMul(TimedeltaFloorDiv(timedelta(o), 100), percentage \div 2)
             IN  [o EXCEPT !.start_datetime = DtAddTimedelta(o.start_datetime, discard_time),
                           !.end_datetime =
                               DtAddTimedelta(o.end_datetime, TimedeltaNeg(discard_time))]

-----------------------------------------------------------------------------
(* Inputs                                                                  *)

\* The instants lie HalfSecond apart, from midnight (UTC) of 2015-03-22 on.
MaxTick == 3
MaxTickUtc == 1
MaxThreshold == 2

HalfSecond == UsPerSecond \div 2

BaseDay == YmdToOrdinal(2015, 3, 22)

Instant(h, tz) == Datetime(BaseDay, 0, h * HalfSecond, tz)

Instants ==
    {Instant(h, "JST") : h \in 0 .. MaxTick} \cup {Instant(h, "UTC") : h \in 0 .. MaxTickUtc}

\* What a caller hands to the setters: None, a datetime, an unparsable string.
EndpointInputs == Instants \cup {None, BadStr}

\* intersection_threshold: None, a timedelta of either sign, a relativedelta.
Thresholds ==
    {None} \cup {Timedelta(0, 0, k * HalfSecond) : k \in (-MaxThreshold) .. MaxThreshold}
           \cup {Relativedelta(0, 0, 0, 0, 0, 1, 0)}

-----------------------------------------------------------------------------
(* State: two DateTimeRange objects, self and x, the call the caller made  *)
(* last with what it returned or raised, and the generator range() made.   *)

Call(op, args, ret) == [op |-> op, args |-> args, ret |-> ret]

IdleCall == Call("idle", <<>>, None)

NoGenerator == [pc |-> "none"]

Init ==
    /\ self = Bound(DateTimeRange(None, None, DEFAULT_TIME_FORMAT, DEFAULT_TIME_FORMAT), "self")
    /\ x = Bound(DateTimeRange(None, None, DEFAULT_TIME_FORMAT, DEFAULT_TIME_FORMAT), "x")
    /\ call = IdleCall
    /\ gen = NoGenerator

Idle == call.op = "idle"

Obj(t) == IF t = "self" THEN self ELSE x

\* Object t becomes o; the other object stays.
Store(t, o) ==
    /\ self' = IF t = "self" THEN o ELSE self
    /\ x' = IF t = "x" THEN o ELSE x

\* Mutant of set_start_datetime: a start after the end is refused.
SetStartDatetime_validating(t, value) ==
    /\ Idle
    /\ LET v   == _normalize_datetime_value(value, None)
           bad == IF IsRaise(v) THEN TRUE
                  ELSE IF IsNone(v) \/ IsNone(Obj(t).end_datetime) THEN FALSE
                  ELSE DtLT(Obj(t).end_datetime, v)
       IN  /\ Store(t, IF bad THEN Obj(t) ELSE [Obj(t) EXCEPT !.start_datetime = v])
           /\ call' = Call("set_start_datetime", <<t, value>>,
                           IF bad THEN Raise("ValueError", "") ELSE None)
    /\ UNCHANGED gen

\* t.set_start_datetime(value)
SetStartDatetime(t, value) ==
    /\ Idle
    /\ LET v == _normalize_datetime_value(value, None)
       IN  /\ Store(t, IF IsRaise(v) THEN Obj(t) ELSE [Obj(t) EXCEPT !.start_datetime = v])
           /\ call' = Call("set_start_datetime", <<t, value>>, IF IsRaise(v) THEN v ELSE None)
    /\ UNCHANGED gen

\* t.set_end_datetime(value)
SetEndDatetime(t, value) ==
    /\ Idle
    /\ LET v == _normalize_datetime_value(value, None)
       IN  /\ Store(t, IF IsRaise(v) THEN Obj(t) ELSE [Obj(t) EXCEPT !.end_datetime = v])
           /\ call' = Call("set_end_datetime", <<t, value>>, IF IsRaise(v) THEN v ELSE None)
    /\ UNCHANGED gen

\* t.set_time_range(start, end): set_start_datetime(start), then
\* set_end_datetime(end); the first to raise ends the call.
SetTimeRange(t, start, end) ==
    /\ Idle
    /\ LET s == _normalize_datetime_value(start, None)
           e == _normalize_datetime_value(end, None)
       IN  /\ Store(t, IF IsRaise(s) THEN Obj(t)
                       ELSE IF IsRaise(e) THEN [Obj(t) EXCEPT !.start_datetime = s]
                       ELSE [Obj(t) EXCEPT !.start_datetime = s, !.end_datetime = e])
           /\ call' = Call("set_time_range", <<t, start, end>>,
                           IF IsRaise(s) THEN s ELSE IF IsRaise(e) THEN e ELSE None)
    /\ UNCHANGED gen

\* value in self
Contains(value) ==
    /\ Idle
    /\ call' = Call("__contains__", <<value>>, __contains__(self, value))
    /\ UNCHANGED <<self, x, gen>>

\* x in self
ContainsRange ==
    /\ Idle
    /\ call' = Call("__contains__", <<x>>, __contains__(self, x))
    /\ UNCHANGED <<self, x, gen>>

\* self.intersection(x, intersection_threshold)
Intersection(intersection_threshold) ==
    /\ Idle
    /\ call' = Call("intersection", <<intersection_threshold>>,
                    intersection(self, x, intersection_threshold))
    /\ UNCHANGED <<self, x, gen>>

\* self.is_intersection(x, intersection_threshold)
IsIntersection(intersection_threshold) ==
    /\ Idle
    /\ call' = Call("is_intersection", <<intersection_threshold>>,
                    is_intersection(self, x, intersection_threshold))
    /\ UNCHANGED <<self, x, gen>>

\* self.subtract(x)
Subtract ==
    /\ Idle
    /\ call' = Call("subtract", <<>>, subtract(self, x))
    /\ UNCHANGED <<self, x, gen>>

\* self.encompass(x)
Encompass ==
    /\ Idle
    /\ call' = Call("encompass", <<>>, encompass(self, x))
    /\ UNCHANGED <<self, x, gen>>

\* self.split(separator)
Split(separator) ==
    /\ Idle
    /\ call' = Call("split", <<separator>>, split(self, separator))
    /\ UNCHANGED <<self, x, gen>>

\* The caller has looked at what the call gave and goes on.
Continue ==
    /\ ~Idle
    /\ call' = IdleCall
    /\ UNCHANGED <<self, x, gen>>

Setters ==
    \E t \in {"self", "x"} :
        \/ \E v \in EndpointInputs : SetStartDatetime(t, v)
        \/ \E v \in EndpointInputs : SetEndDatetime(t, v)
        \/ \E s \in EndpointInputs, e \in EndpointInputs : SetTimeRange(t, s, e)

Next ==
    \/ Setters
    \/ \E v \in EndpointInputs : Contains(v)
    \/ ContainsRange
    \/ \E th \in Thresholds : Intersection(th)
    \/ \E th \in Thresholds : IsIntersection(th)
    \/ Subtract
    \/ Encompass
    \/ \E v \in EndpointInputs : Split(v)
    \/ Continue

Spec == Init /\ [][Next]_vars

-----------------------------------------------------------------------------
(* range(step): a generator.  Calling range(step) runs none of its body;   *)
(* the first next() runs it from the top to the first yield, every later   *)
(* next() from the yield it is suspended at to the following one.  The     *)
(* loop reads self.end_datetime afresh at every test.                      *)

MaxRangeDay == 1
MaxRangeTick == 2
MaxStep == 2
MaxPulls == 4

\* The instants of the ranges iterated over: from midnight (UTC) of
\* 2015-01-31 on, HalfSecond apart on each day.
RangeBaseDay == YmdToOrdinal(2015, 1, 31)

RangeInstants ==
    {Datetime(RangeBaseDay + d, 0, h * HalfSecond, "JST") :
        d \in 0 .. MaxRangeDay, h \in 0 .. MaxRangeTick}
    \cup {Datetime(RangeBaseDay, 0, 0, "UTC")}

RangeInputs == RangeInstants \cup {None}

\* step: a timedelta of either sign, sub-second ones among them, or a
\* relativedelta, one of mixed signs (+1 month -40 days) among them.
TimedeltaSteps ==
    {Timedelta(0, 0, k * HalfSecond) : k \in (-MaxStep) .. MaxStep}
    \cup {Timedelta(1, 0, 0), Timedelta(-1, 0, 0)}

RelativedeltaSteps ==
    {Relativedelta(0, 0, 0, 0, 0, 0, 0),
     Relativedelta(0, 0, 0, 0, 0, 1, 0),
     Relativedelta(0, 0, 0, 0, 0, -1, 0),
     Relativedelta(0, 0, 1, 0, 0, 0, 0),
     Relativedelta(0, 0, -1, 0, 0, 0, 0),
     Relativedelta(0, 1, 0, 0, 0, 0, 0),
     Relativedelta(0, -1, 0, 0, 0, 0, 0),
     Relativedelta(0, 1, -40, 0, 0, 0, 0)}

Steps == TimedeltaSteps \cup RelativedeltaSteps

\* A generator object: where it stands (pc), its locals, the values it has
\* yielded so far and the exception that ended it, if one did.
Generator(pc, step, cmp_step_w_zero, is_inversion, current_datetime, yielded, exc) ==
    [pc |-> pc, step |-> step, cmp_step_w_zero |-> cmp_step_w_zero,
     is_inversion |-> is_inversion, current_datetime |-> current_datetime,
     yielded |-> yielded, exc |-> exc]

\* The generator at "while current_datetime <= self.end_datetime" (or >= for an
\* inverted range) with current_datetime = cur: it yields cur and suspends, or
\* leaves the loop and returns.
range_loop(g, o, cur) ==
    IF IsNone(o.end_datetime) \/ IsNone(cur)
    THEN [g EXCEPT !.pc = "raised", !.current_datetime = cur,
                   !.exc = Raise("TypeError", "'<=' not supported")]
    ELSE IF (~g.is_inversion /\ DtLE(cur, o.end_datetime))
            \/ (g.is_inversion /\ DtLE(o.end_datetime, cur))
    THEN [g EXCEPT !.pc = "suspended", !.current_datetime = cur,
                   !.yielded = Append(g.yielded, cur)]
    ELSE [g EXCEPT !.pc = "done", !.current_datetime = cur]

\* Mutant of range_start: the range is validated before the step is
\* compared with zero.
range_start_validate_first(g, o) ==
    LET cmp_step_w_zero == _compare_timedelta(g.step, 0)
        e == validate_time_inversion(o)
        is_inversion == IsRaise(e) /\ e.exc = "ValueError"
        g1 == [g EXCEPT !.cmp_step_w_zero = cmp_step_w_zero,
                        !.is_inversion = is_inversion]
    IN  IF IsRaise(e) /\ e.exc # "ValueError"
        THEN [g EXCEPT !.pc = "raised", !.cmp_step_w_zero = cmp_step_w_zero, !.exc = e]
        ELSE IF cmp_step_w_zero = 0
        THEN [g EXCEPT !.pc = "raised", !.cmp_step_w_zero = cmp_step_w_zero,
                       !.exc = Raise("ValueError", "step must be not zero")]
        ELSE IF ~is_inversion /\ cmp_step_w_zero < 0
        THEN [g1 EXCEPT !.pc = "raised", !.current_datetime = o.start_datetime,
                        !.exc = Raise("ValueError", "invalid step: expect greater than 0")]
        ELSE IF is_inversion /\ cmp_step_w_zero > 0
        THEN [g1 EXCEPT !.pc = "raised", !.current_datetime = o.start_datetime,
                        !.exc = Raise("ValueError", "invalid step: expect less than 0")]
        ELSE range_loop(g1, o, o.start_datetime)

\* The first next(): the body of range from its top.
range_start(g, o) ==
    LET cmp_step_w_zero == _compare_timedelta(g.step, 0)
        e == validate_time_inversion(o)
        is_inversion == IsRaise(e) /\ e.exc = "ValueError"
        g1 == [g EXCEPT !.cmp_step_w_zero = cmp_step_w_zero,
                        !.is_inversion = is_inversion]
    IN  IF cmp_step_w_zero = 0
        THEN [g EXCEPT !.pc = "raised", !.cmp_step_w_zero = cmp_step_w_zero,
                       !.exc = Raise("ValueError", "step must be not zero")]
        ELSE IF IsRaise(e) /\ e.exc # "ValueError"
        THEN [g EXCEPT !.pc = "raised", !.cmp_step_w_zero = cmp_step_w_zero, !.exc = e]
        ELSE IF ~is_inversion /\ cmp_step_w_zero < 0
        THEN [g1 EXCEPT !.pc = "raised", !.current_datetime = o.start_datetime,
                        !.exc = Raise("ValueError", "invalid step: expect greater than 0")]
        ELSE IF is_inversion /\ cmp_step_w_zero > 0
        THEN [g1 EXCEPT !.pc = "raised", !.current_datetime = o.start_datetime,
                        !.exc = Raise("ValueError", "invalid step: expect less than 0")]
        ELSE range_loop(g1, o, o.start_datetime)

\* A later next(): current_datetime = current_datetime + step, then the loop test.
range_resume(g, o) == range_loop(g, o, DtAdd(g.current_datetime, g.step))

\* self.range(step): the generator object, nothing of the body run yet.
Range(step) ==
    /\ Idle
    /\ gen.pc = "none"
    /\ gen' = Generator("created", step, 0, FALSE, None, <<>>, None)
    /\ UNCHANGED <<self, x, call>>

\* next(generator), at most MaxPulls values being pulled from one generator.
\* A generator that has returned or raised raises StopIteration and stays as
\* it is.
RangeNext ==
    /\ Idle
    /\ gen.pc \in {"created", "suspended"}
    /\ Len(gen.yielded) < MaxPulls
    /\ gen' = IF gen.pc = "created" THEN range_start(gen, self)
              ELSE range_resume(gen, self)
    /\ UNCHANGED <<self, x, call>>

\* The caller drops the generator.
RangeClose ==
    /\ Idle
    /\ gen.pc # "none"
    /\ gen' = NoGenerator
    /\ UNCHANGED <<self, x, call>>

\* The range is set up while no generator is alive, then iterated over.
NextRange ==
    \/ gen.pc = "none"
         /\ \E s \in RangeInputs, e \in RangeInputs : SetTimeRange("self", s, e)
    \/ Continue
    \/ \E step \in Steps : Range(step)
    \/ RangeNext
    \/ RangeClose

SpecRange == Init /\ [][NextRange]_vars

-----------------------------------------------------------------------------
(* One DateTimeRange, self, and the methods that look at it or shift it:   *)
(* construction with format strings, the predicates, ==, !=, the four      *)
(* shift operators, the duration and truncate.                             *)

MaxComparandTick == 1

\* start_time_format, end_time_format handed to the constructor: empty (as
\* good as none: "start_time_format or DEFAULT_TIME_FORMAT"), or two formats
\* of the caller.
OpsFormats == {<<"", "">>, <<"%Y/%m/%d %H:%M:%S", "%Y/%m/%d %H:%M:%S%z">>}

\* What the constructor is given for an endpoint.
OpsEndpointInputs == Instants \cup {None}

\* The durations ranges are shifted by.
Durations ==
    {Timedelta(0, 0, HalfSecond), Timedelta(-1, 0, 0), Relativedelta(0, 1, 0, 0, 0, 0, 0)}

\* truncate's percentage.
Percentages == {-10, 0, 5, 10, 300}

\* What self is compared with: ranges, some with format strings, separator
\* and elapse flag of their own, and values that are no range.
ComparandInstants ==
    {Instant(h, "JST") : h \in 0 .. MaxComparandTick} \cup {Instant(0, "UTC"), None}

Comparands ==
    {DateTimeRange(s, e, DEFAULT_TIME_FORMAT, DEFAULT_TIME_FORMAT) :
        s \in ComparandInstants, e \in ComparandInstants}
    \cup {[DateTimeRange(s, e, "%Y/%m/%d %H:%M:%S", "%Y/%m/%d") EXCEPT
               !.separator = " to ", !.is_output_elapse = TRUE] :
        s \in ComparandInstants, e \in ComparandInstants}
    \cup {None, BadStr, Instant(0, "JST")}

\* The endpoints of o are among the instants a caller sets: the in-place
\* operations are applied to such ranges only, which bounds how far a range
\* drifts.
OnGrid(o) ==
    /\ o.start_datetime \in OpsEndpointInputs
    /\ o.end_datetime \in OpsEndpointInputs

\* self = DateTimeRange(start, end, start_time_format, end_time_format)
Construct(start, end, start_time_format, end_time_format) ==
    /\ Idle
    /\ LET s == _normalize_datetime_value(start, None)
           e == _normalize_datetime_value(end, None)
           o == DateTimeRange(s, e,
                    IF start_time_format = "" THEN DEFAULT_TIME_FORMAT
                    ELSE start_time_format,
                    IF end_time_format = "" THEN DEFAULT_TIME_FORMAT
                    ELSE end_time_format)
       IN  /\ self' = Bound(o, "self")
           /\ call' = Call("__init__", <<start, end>>, None)
    /\ UNCHANGED <<x, gen>>

\* self.validate_time_inversion()
ValidateTimeInversion ==
    /\ Idle
    /\ call' = Call("validate_time_inversion", <<self>>, validate_time_inversion(self))
    /\ UNCHANGED <<self, x, gen>>

\* self.is_valid_timerange()
IsValidTimerange ==
    /\ Idle
    /\ call' = Call("is_valid_timerange", <<self>>, Bool(is_valid_timerange(self)))
    /\ UNCHANGED <<self, x, gen>>

\* self.is_set()
IsSet ==
    /\ Idle
    /\ call' = Call("is_set", <<self>>, Bool(is_set(self)))
    /\ UNCHANGED <<self, x, gen>>

\* self.timedelta
GetTimedelta ==
    /\ Idle
    /\ call' = Call("timedelta", <<self>>, timedelta(self))
    /\ UNCHANGED <<self, x, gen>>

\* self.get_timedelta_second()
GetTimedeltaSecond ==
    /\ Idle
    /\ call' = Call("get_timedelta_second", <<self>>, get_timedelta_second(self))
    /\ UNCHANGED <<self, x, gen>>

\* self == other
Eq(other) ==
    /\ Idle
    /\ call' = Call("__eq__", <<self, other>>, __eq__(self, other))
    /\ UNCHANGED <<self, x, gen>>

\* self != other
Ne(other) ==
    /\ Idle
    /\ call' = Call("__ne__", <<self, other>>, __ne__(self, other))
    /\ UNCHANGED <<self, x, gen>>

\* self + other
Add(other) ==
    /\ Idle
    /\ call' = Call("__add__", <<self, other>>, __add__(self, other))
    /\ UNCHANGED <<self, x, gen>>

\* self - other
Sub(other) ==
    /\ Idle
    /\ call' = Call("__sub__", <<self, other>>, __sub__(self, other))
    /\ UNCHANGED <<self, x, gen>>

\* self += other; the call keeps the object as it was before.
IAdd(other) ==
    /\ Idle
    /\ OnGrid(self)
    /\ LET r == __iadd__(self, other)
       IN  /\ self' = IF IsRaise(r) THEN self ELSE r
           /\ call' = Call("__iadd__", <<self, other>>, r)
    /\ UNCHANGED <<x, gen>>

\* self -= other
ISub(other) ==
    /\ Idle
    /\ OnGrid(self)
    /\ LET r == __isub__(self, other)
       IN  /\ self' = IF IsRaise(r) THEN self ELSE r
           /\ call' = Call("__isub__", <<self, other>>, r)
    /\ UNCHANGED <<x, gen>>

\* self.truncate(percentage)
Truncate(percentage) ==
    /\ Idle
    /\ OnGrid(self)
    /\ LET r == truncate(self, percentage)
       IN  /\ self' = IF IsRaise(r) THEN self ELSE r
           /\ call' = Call("truncate", <<self, percentage>>, IF IsRaise(r) THEN r ELSE None)
    /\ UNCHANGED <<x, gen>>

NextOps ==
    \/ \E s \in OpsEndpointInputs, e \in OpsEndpointInputs, f \in OpsFormats :
           Construct(s, e, f[1], f[2])
    \/ ValidateTimeInversion
    \/ IsValidTimerange
    \/ IsSet
    \/ GetTimedelta
    \/ GetTimedeltaSecond
    \/ \E other \in Comparands : Eq(other)
    \/ \E other \in Comparands : Ne(other)
    \/ \E d \in Durations : Add(d)
    \/ \E d \in Durations : Sub(d)
    \/ \E d \in Durations : IAdd(d)
    \/ \E d \in Durations : ISub(d)
    \/ \E p \in Percentages : Truncate(p)
    \/ OnGrid(self) /\ \E v \in EndpointInputs : SetStartDatetime("self", v)
    \/ OnGrid(self) /\ \E v \in EndpointInputs : SetEndDatetime("self", v)
    \/ Continue

SpecOps == Init /\ [][NextOps]_vars

-----------------------------------------------------------------------------
(* Two generators of one range: g1 = self.range(step); g2 =                *)
(* self.range(step), pulled from in any order while the range stays as it  *)
(* is.  Each generator object has its own frame: step, cmp_step_w_zero,    *)
(* is_inversion and current_datetime are locals of range.                  *)

Consumers == {"first", "second"}

\* Mutant of Cursor: the two generators share the frame of the first.
Cursor_shared(pair, consumer) == pair.first

\* The frame of the generator the consumer holds.
Cursor(pair, consumer) == pair[consumer]

\* What next() gives the caller, g being the generator after it: the value
\* yielded, the exception raised, or StopIteration once the body returned.
NextValue(g) ==
    IF g.pc = "suspended" THEN g.current_datetime
    ELSE IF g.pc = "raised" THEN g.exc
    ELSE Raise("StopIteration", "")

\* g1 = self.range(step); g2 = self.range(step)
RangeTwice(step) ==
    /\ Idle
    /\ gen.pc = "none"
    /\ gen' = [pc |-> "pair",
               first |-> Generator("created", step, 0, FALSE, None, <<>>, None),
               second |-> Generator("created", step, 0, FALSE, None, <<>>, None)]
    /\ UNCHANGED <<self, x, call>>

\* next(g) on the generator of one consumer that has not ended
PairNext(consumer) ==
    /\ Idle
    /\ gen.pc = "pair"
    /\ LET g  == Cursor(gen, consumer)
           g2 == IF g.pc = "created" THEN range_start(g, self) ELSE range_resume(g, self)
       IN  /\ g.pc \in {"created", "suspended"}
           /\ Len(g.yielded) < MaxPulls
           /\ gen' = [gen EXCEPT ![consumer] = g2]
           /\ call' = Call("next", <<consumer>>, NextValue(g2))
    /\ UNCHANGED <<self, x>>

\* next(g) on a generator that has returned or raised: StopIteration
PairNextExhausted(consumer) ==
    /\ Idle
    /\ gen.pc = "pair"
    /\ Cursor(gen, consumer).pc \in {"done", "raised"}
    /\ call' = Call("next", <<consumer>>, Raise("StopIteration", ""))
    /\ UNCHANGED <<self, x, gen>>

\* The caller drops both generators.
PairClose ==
    /\ Idle
    /\ gen.pc = "pair"
    /\ gen' = NoGenerator
    /\ UNCHANGED <<self, x, call>>

NextPair ==
    \/ gen.pc = "none"
         /\ \E s \in RangeInputs, e \in RangeInputs : SetTimeRange("self", s, e)
    \/ Continue
    \/ \E step \in Steps : RangeTwice(step)
    \/ \E c \in Consumers : PairNext(c)
    \/ \E c \in Consumers : PairNextExhausted(c)
    \/ PairClose

SpecPair == Init /\ [][NextPair]_vars

-----------------------------------------------------------------------------
(* The ranges a method returned, held by the caller while it mutates one   *)
(* of them, or self, or x.  A mutation acts on one object: whatever is     *)
(* that same object (has its id) changes with it, nothing else does.       *)

\* The endpoints of self and x, the instant set into a range later, the
\* duration it is shifted by and the percentage it is truncated by.
AliasInputs == {Instant(h, "JST") : h \in 0 .. MaxTick} \cup {None}

AliasInstants == {Instant(1, "JST")}

AliasDurations == {Timedelta(0, 0, HalfSecond)}

AliasPercentages == {10}

AliasThresholds == {None, Timedelta(0, 0, HalfSecond)}

\* The methods that return ranges, and those that change the range they are
\* called on.
RangeMethods == {"intersection", "encompass", "subtract", "split"}

Mutators == {"set_start_datetime", "set_end_datetime", "__iadd__", "__isub__", "truncate"}

\* The ranges in what a method returned: the range itself, or the items of
\* the list.
Returned(ret) ==
    IF ret.kind = "DateTimeRange" THEN <<ret>>
    ELSE IF ret.kind = "list" THEN ret.items
    ELSE <<>>

\* The object o after o.method(arg); o as it was if the call raises.
Mutated(o, method, arg) ==
    LET r == CASE method = "set_start_datetime" ->
                      [o EXCEPT !.start_datetime = _normalize_datetime_value(arg, None)]
               [] method = "set_end_datetime" ->
                      [o EXCEPT !.end_datetime = _normalize_datetime_value(arg, None)]
               [] method = "__iadd__" -> __iadd__(o, arg)
               [] method = "__isub__" -> __isub__(o, arg)
               [] method = "truncate" -> truncate(o, arg)
    IN  IF IsRaise(r) THEN o ELSE r

\* What the caller holds once the object target has become o2: the i-th
\* range (i = 0: none in particular) and every range that is the object
\* target are o2 now.
Held(ret, i, target, o2) ==
    LET same(j) == j = i \/ (target.id # "fresh" /\ Returned(ret)[j].id = target.id)
    IN  IF ret.kind = "DateTimeRange" THEN (IF same(1) THEN o2 ELSE ret)
        ELSE [ret EXCEPT !.items =
                  [j \in DOMAIN ret.items |-> IF same(j) THEN o2 ELSE ret.items[j]]]

\* result[i].method(arg) on the i-th range of those returned last
MutateReturned(i, method, arg) ==
    /\ call.op \in RangeMethods
    /\ i \in DOMAIN Returned(call.ret)
    /\ LET r  == Returned(call.ret)[i]
           o2 == Mutated(r, method, arg)
       IN  /\ OnGrid(r)
           /\ self' = IF r.id = self.id THEN o2 ELSE self
           /\ x' = IF r.id = x.id THEN o2 ELSE x
           /\ call' = Call(method, <<"returned", i, arg>>, Held(call.ret, i, r, o2))
    /\ UNCHANGED gen

\* t.method(arg), t being self or x, while the caller holds the ranges
\* returned last
MutateSource(t, method, arg) ==
    /\ call.op \in RangeMethods
    /\ Returned(call.ret) # <<>>
    /\ OnGrid(Obj(t))
    /\ LET o2 == Mutated(Obj(t), method, arg)
       IN  /\ Store(t, o2)
           /\ call' = Call(method, <<t, 0, arg>>, Held(call.ret, 0, Obj(t), o2))
    /\ UNCHANGED gen

NextAlias ==
    \/ \E t \in {"self", "x"}, s \in AliasInputs, e \in AliasInputs : SetTimeRange(t, s, e)
    \/ OnGrid(self) /\ OnGrid(x) /\ \E th \in AliasThresholds : Intersection(th)
    \/ OnGrid(self) /\ OnGrid(x) /\ \E th \in AliasThresholds : IsIntersection(th)
    \/ OnGrid(self) /\ OnGrid(x) /\ Encompass
    \/ OnGrid(self) /\ OnGrid(x) /\ Subtract
    \/ OnGrid(self) /\ OnGrid(x) /\ \E v \in AliasInputs : Split(v)
    \/ OnGrid(self) /\ OnGrid(x) /\ \E v \in AliasInputs : Contains(v)
    \/ OnGrid(self) /\ OnGrid(x) /\ ContainsRange
    \/ \E i \in 1 .. 2, v \in AliasInstants : MutateReturned(i, "set_start_datetime", v)
    \/ \E i \in 1 .. 2, v \in AliasInstants : MutateReturned(i, "set_end_datetime", v)
    \/ \E i \in 1 .. 2, d \in AliasDurations : MutateReturned(i, "__iadd__", d)
    \/ \E i \in 1 .. 2, d \in AliasDurations : MutateReturned(i, "__isub__", d)
    \/ \E i \in 1 .. 2, p \in AliasPercentages : MutateReturned(i, "truncate", p)
    \/ \E t \in {"self", "x"}, v \in AliasInstants : MutateSource(t, "set_start_datetime", v)
    \/ \E t \in {"self", "x"}, v \in AliasInstants : MutateSource(t, "set_end_datetime", v)
    \/ \E t \in {"self", "x"}, d \in AliasDurations : MutateSource(t, "__iadd__", d)
    \/ \E t \in {"self", "x"}, d \in AliasDurations : MutateSource(t, "__isub__", d)
    \/ \E t \in {"self", "x"}, p \in AliasPercentages : MutateSource(t, "truncate", p)
    \/ Continue

SpecAlias == Init /\ [][NextAlias]_vars

-----------------------------------------------------------------------------
(* A generator of self, pulled from while self is modified.  Beside it     *)
(* runs a generator of a copy of self taken when range(step) was called:   *)
(* copy = DateTimeRange(self.start_datetime, self.end_datetime);           *)
(* g = self.range(step); h = copy.range(step).  The copy is never          *)
(* modified.                                                               *)

MaxMutations == 1

\* The endpoints of the range iterated over and the instants set into it
\* later: HalfSecond apart on one day.
LiveInstants ==
    {Datetime(RangeBaseDay, 0, h * HalfSecond, "JST") : h \in 0 .. MaxRangeTick}

LiveInputs == LiveInstants \cup {None}

LiveSteps == {Timedelta(0, 0, k * HalfSecond) : k \in (-MaxStep) .. MaxStep}

\* One more next() on g, if it has not ended and has yielded fewer than
\* MaxPulls values.
Pulled(g, o) ==
    IF g.pc \in {"created", "suspended"} /\ Len(g.yielded) < MaxPulls
    THEN (IF g.pc = "created" THEN range_start(g, o) ELSE range_resume(g, o))
    ELSE g

\* copy = DateTimeRange(self.start_datetime, self.end_datetime);
\* g = self.range(step); h = copy.range(step), self being as set_time_range
\* left it.
RangeLive(step) ==
    /\ Idle
    /\ gen.pc = "none"
    /\ self.start_datetime \in LiveInputs /\ self.end_datetime \in LiveInputs
    /\ gen' = [pc |-> "live",
               mutations |-> 0,
               copy |-> DateTimeRange(self.start_datetime, self.end_datetime,
                                      DEFAULT_TIME_FORMAT, DEFAULT_TIME_FORMAT),
               g |-> Generator("created", step, 0, FALSE, None, <<>>, None),
               h |-> Generator("created", step, 0, FALSE, None, <<>>, None)]
    /\ UNCHANGED <<self, x, call>>

\* next(g); next(h): each generator reads the range it was made from.
LiveNext ==
    /\ Idle
    /\ gen.pc = "live"
    /\ gen' = [gen EXCEPT !.g = Pulled(@, self), !.h = Pulled(@, gen.copy)]
    /\ gen' # gen
    /\ UNCHANGED <<self, x, call>>

\* self.method(arg) while the generators are alive, at most MaxMutations
\* times.
LiveMutate(method, arg) ==
    /\ Idle
    /\ gen.pc = "live"
    /\ gen.mutations < MaxMutations
    /\ self' = Mutated(self, method, arg)
    /\ gen' = [gen EXCEPT !.mutations = @ + 1]
    /\ UNCHANGED <<x, call>>

\* The caller drops the generators and the copy.
LiveClose ==
    /\ Idle
    /\ gen.pc = "live"
    /\ gen' = NoGenerator
    /\ UNCHANGED <<self, x, call>>

NextLive ==
    \/ gen.pc = "none"
         /\ \E s \in LiveInputs, e \in LiveInputs : SetTimeRange("self", s, e)
    \/ Continue
    \/ \E step \in LiveSteps : RangeLive(step)
    \/ LiveNext
    \/ \E v \in LiveInstants : LiveMutate("set_start_datetime", v)
    \/ \E v \in LiveInstants : LiveMutate("set_end_datetime", v)
    \/ \E d \in AliasDurations : LiveMutate("__iadd__", d)
    \/ \E d \in AliasDurations : LiveMutate("__isub__", d)
    \/ \E p \in AliasPercentages : LiveMutate("truncate", p)
    \/ LiveClose

SpecLive == Init /\ [][NextLive]_vars

-----------------------------------------------------------------------------
(* Vocabulary of the properties: the order of instants and the shapes of   *)
(* results, stated on the values themselves.                               *)

Earlier(a, b) ==
    \/ a.days < b.days
    \/ a.days = b.days /\ a.seconds < b.seconds
    \/ a.days = b.days /\ a.seconds = b.seconds /\ a.microseconds < b.microseconds

NotAfter(a, b) == ~Earlier(b, a)

SameInstant(a, b) == ~Earlier(a, b) /\ ~Earlier(b, a)

LaterOf(a, b) == IF Earlier(a, b) THEN b ELSE a

EarlierOf(a, b) == IF Earlier(b, a) THEN b ELSE a

Unset(o) == IsNone(o.start_datetime) \/ IsNone(o.end_datetime)

\* Both endpoints present, in the same timezone, and start <= end.
ValidRange(o) ==
    /\ ~Unset(o)
    /\ o.start_datetime.tzinfo = o.end_datetime.tzinfo
    /\ NotAfter(o.start_datetime, o.end_datetime)

\* Both endpoints present, in the same timezone, and start > end.
Inverted(o) ==
    /\ ~Unset(o)
    /\ o.start_datetime.tzinfo = o.end_datetime.tzinfo
    /\ Earlier(o.end_datetime, o.start_datetime)

\* r is a range from instant s to instant e.
IsRangeOf(r, s, e) ==
    /\ r.kind = "DateTimeRange"
    /\ ~IsNone(r.start_datetime) /\ SameInstant(r.start_datetime, s)
    /\ ~IsNone(r.end_datetime) /\ SameInstant(r.end_datetime, e)

\* r is a range with both endpoints absent.
IsAbsentRange(r) ==
    /\ r.kind = "DateTimeRange"
    /\ IsNone(r.start_datetime) /\ IsNone(r.end_datetime)

\* The closed intervals a and b share at least one instant.
Overlap(a, b) ==
    /\ NotAfter(a.start_datetime, b.end_datetime)
    /\ NotAfter(b.start_datetime, a.end_datetime)

OverlapStart(a, b) == LaterOf(a.start_datetime, b.start_datetime)

OverlapEnd(a, b) == EarlierOf(a.end_datetime, b.end_datetime)

\* The length of [s, e] as (whole seconds, microseconds), and its order
\* against a timedelta td.
NotShorterThan(s, e, td) ==
    LET secs == (e.days - s.days) * SecondsPerDay + (e.seconds - s.seconds)
        us   == e.microseconds - s.microseconds
        dsec == IF us < 0 THEN secs - 1 ELSE secs
        dus  == IF us < 0 THEN us + UsPerSecond ELSE us
        tsec == td.days * SecondsPerDay + td.seconds
    IN  tsec < dsec \/ (tsec = dsec /\ td.microseconds <= dus)

Raises(v, exc) == v.kind = "raise" /\ v.exc = exc

-----------------------------------------------------------------------------
(* Properties                                                              *)

\* C1: for valid ranges self and x, self.intersection(x) without a threshold
\* is the range [max(starts), min(ends)] exactly when the closed intervals
\* share an instant (self.start <= x.end and x.start <= self.end), and a range
\* with both endpoints absent otherwise.
C1_Intersection ==
    (call.op = "intersection" /\ IsNone(call.args[1])
        /\ ValidRange(self) /\ ValidRange(x))
    => IF Overlap(self, x)
       THEN IsRangeOf(call.ret, OverlapStart(self, x), OverlapEnd(self, x))
       ELSE IsAbsentRange(call.ret)

\* C1 witness: two valid ranges that only touch (self.end = x.start, both of
\* positive length) gave a set range of zero length.
C1_Witness ==
    /\ call.op = "intersection" /\ IsNone(call.args[1])
    /\ ValidRange(self) /\ ValidRange(x)
    /\ Earlier(self.start_datetime, self.end_datetime)
    /\ Earlier(x.start_datetime, x.end_datetime)
    /\ SameInstant(self.end_datetime, x.start_datetime)
    /\ IsRangeOf(call.ret, self.end_datetime, self.end_datetime)

\* C2: for valid ranges self and x and every timedelta threshold T,
\* self.intersection(x, T) is the overlap [max(starts), min(ends)] when the
\* ranges overlap and the overlap lasts at least T, and a range with both
\* endpoints absent otherwise; self.is_intersection(x, T) is true exactly when
\* that result is set.
C2_Threshold ==
    (call.op \in {"intersection", "is_intersection"}
        /\ call.args[1].kind = "timedelta"
        /\ ValidRange(self) /\ ValidRange(x))
    => LET kept == /\ Overlap(self, x)
                   /\ NotShorterThan(OverlapStart(self, x), OverlapEnd(self, x),
                                     call.args[1])
       IN  IF call.op = "is_intersection"
           THEN call.ret = Bool(kept)
           ELSE IF kept
           THEN IsRangeOf(call.ret, OverlapStart(self, x), OverlapEnd(self, x))
           ELSE IsAbsentRange(call.ret)

\* r is a list of one range, from s to e.
IsListOfOne(r, s, e) ==
    /\ r.kind = "list" /\ Len(r.items) = 1
    /\ IsRangeOf(r.items[1], s, e)

\* r is a list of two ranges, from s1 to e1 and from s2 to e2, in that order.
IsListOfTwo(r, s1, e1, s2, e2) ==
    /\ r.kind = "list" /\ Len(r.items) = 2
    /\ IsRangeOf(r.items[1], s1, e1)
    /\ IsRangeOf(r.items[2], s2, e2)

IsEmptyList(r) == r.kind = "list" /\ Len(r.items) = 0

C4_SubtractEncompassed ==
    (call.op = "subtract" /\ ValidRange(self) /\ ValidRange(x)
        /\ NotAfter(x.start_datetime, self.start_datetime)
        /\ NotAfter(self.end_datetime, x.end_datetime))
    => IsEmptyList(call.ret)

C6_ContainsInstant ==
    (call.op = "__contains__" /\ call.args[1].kind = "datetime" /\ ValidRange(self))
    => call.ret = Bool(/\ NotAfter(self.start_datetime, call.args[1])
                       /\ NotAfter(call.args[1], self.end_datetime))

\* C6 witness: the end of a valid range of positive length was found in it.
C6_Witness ==
    /\ call.op = "__contains__" /\ call.args[1].kind = "datetime"
    /\ ValidRange(self)
    /\ Earlier(self.start_datetime, self.end_datetime)
    /\ SameInstant(call.args[1], self.end_datetime)
    /\ call.ret = Bool(TRUE)

C8_Split ==
    (call.op = "split" /\ call.args[1].kind = "datetime")
    => /\ ValidRange(self)
          => IF \/ Earlier(call.args[1], self.start_datetime)
                \/ Earlier(self.end_datetime, call.args[1])
                \/ SameInstant(call.args[1], self.start_datetime)
                \/ SameInstant(call.args[1], self.end_datetime)
             THEN IsListOfOne(call.ret, self.start_datetime, self.end_datetime)
             ELSE IsListOfTwo(call.ret, self.start_datetime, call.args[1],
                              call.args[1], self.end_datetime)
       /\ Unset(self) => Raises(call.ret, "TypeError")
       /\ Inverted(self) => Raises(call.ret, "ValueError")

\* C8 witness: an instant strictly inside a valid range cut it in two.
C8_Witness ==
    /\ call.op = "split" /\ call.args[1].kind = "datetime"
    /\ ValidRange(self)
    /\ Earlier(self.start_datetime, call.args[1])
    /\ Earlier(call.args[1], self.end_datetime)
    /\ IsListOfTwo(call.ret, self.start_datetime, call.args[1],
                   call.args[1], self.end_datetime)

\* The sign of a step as the claims read it: of a timedelta, its sign as a
\* duration; of a relativedelta, the sign of its first non-zero component from
\* years down to microseconds.
StepSign(step) ==
    IF step.kind = "timedelta"
    THEN (IF step.days < 0 THEN -1
          ELSE IF step.days > 0 \/ step.seconds > 0 \/ step.microseconds > 0 THEN 1
          ELSE 0)
    ELSE LET first == IF step.years # 0 THEN step.years
                      ELSE IF step.months # 0 THEN step.months
                      ELSE IF step.days # 0 THEN step.days
                      ELSE IF step.hours # 0 THEN step.hours
                      ELSE IF step.minutes # 0 THEN step.minutes
                      ELSE IF step.seconds # 0 THEN step.seconds
                      ELSE step.microseconds
         IN  IF first < 0 THEN -1 ELSE IF first > 0 THEN 1 ELSE 0

\* The generator has been pulled at least once.
Started == gen.pc \in {"suspended", "done", "raised"}

\* v lies in the closed interval between a and b, whichever of them is first.
Between(v, a, b) ==
    /\ NotAfter(EarlierOf(a, b), v)
    /\ NotAfter(v, LaterOf(a, b))

\* C9: for every set range and every non-zero step range(step) accepts, the
\* first value yielded is the start, each later value is the previous one plus
\* step, every value yielded lies between start and end, and the iteration
\* ends only before a value beyond end (a value equal to end is yielded).
C9_RangeValues ==
    (Started /\ ~Unset(self) /\ IsNone(gen.exc))
    => /\ Len(gen.yielded) >= 1
       /\ SameInstant(gen.yielded[1], self.start_datetime)
       /\ \A i \in 2 .. Len(gen.yielded) :
              gen.yielded[i] = DtAdd(gen.yielded[i - 1], gen.step)
       /\ \A i \in 1 .. Len(gen.yielded) :
              Between(gen.yielded[i], self.start_datetime, self.end_datetime)
       /\ gen.pc = "done"
          => IF NotAfter(self.start_datetime, self.end_datetime)
             THEN Earlier(self.end_datetime, gen.current_datetime)
             ELSE Earlier(gen.current_datetime, self.end_datetime)

\* C10: on a forward range (start <= end) the first next() of range(step)
\* raises ValueError, nothing being yielded, for every negative step and
\* yields for every positive one; on an inverted range it raises for every
\* positive step and yields for every negative one.
C10_StepSign ==
    Started
    => /\ (ValidRange(self) /\ StepSign(gen.step) < 0)
          => Raises(gen.exc, "ValueError") /\ gen.yielded = <<>>
       /\ (ValidRange(self) /\ StepSign(gen.step) > 0)
          => IsNone(gen.exc) /\ Len(gen.yielded) >= 1
       /\ (Inverted(self) /\ StepSign(gen.step) > 0)
          => Raises(gen.exc, "ValueError") /\ gen.yielded = <<>>
       /\ (Inverted(self) /\ StepSign(gen.step) < 0)
          => IsNone(gen.exc) /\ Len(gen.yielded) >= 1

\* C11: for every set range and every step that passes range(step)'s zero
\* and sign checks, steps of mixed signs among them, each advance moves the
\* current instant strictly toward end: on a range with start <= end every
\* value yielded is later than the one before, on a range with start > end
\* earlier; it is this that makes the generator finish after finitely many
\* pulls.
C11_RangeAdvances ==
    (Started /\ ~Unset(self) /\ IsNone(gen.exc))
    => \A i \in 2 .. Len(gen.yielded) :
           IF NotAfter(self.start_datetime, self.end_datetime)
           THEN Earlier(gen.yielded[i - 1], gen.yielded[i])
           ELSE Earlier(gen.yielded[i], gen.yielded[i - 1])

\* The call the caller made last is a call of op.
Called(op) == call.op = op

TimezoneMismatch(o) ==
    /\ ~Unset(o)
    /\ o.start_datetime.tzinfo # o.end_datetime.tzinfo

\* C13: when both endpoints are present and their timezones differ,
\* validate_time_inversion raises TypeError, the class it raises for absent
\* endpoints, never the ValueError of an inverted range.
C13_TimezoneMismatch ==
    (Called("validate_time_inversion") /\ TimezoneMismatch(self))
    => Raises(call.ret, "TypeError")

\* C14: in every state of a range is_valid_timerange() returns a boolean,
\* never raising, true exactly when validate_time_inversion() would not
\* raise, that is when both endpoints are present, in the same timezone, and
\* start <= end; is_set() is true exactly when both endpoints are present,
\* whatever their order.
C14_IsValidIsSet ==
    /\ Called("is_valid_timerange")
       => /\ call.ret.kind = "bool"
          /\ call.ret.value = ValidRange(self)
          /\ call.ret.value = IsNone(validate_time_inversion(self))
    /\ Called("is_set")
       => /\ call.ret.kind = "bool"
          /\ call.ret.value = ~Unset(self)

\* is_valid_timerange has returned False on a range that is set, its
\* endpoints in different timezones.
C14_Witness ==
    /\ Called("is_valid_timerange")
    /\ TimezoneMismatch(self)
    /\ call.ret = Bool(FALSE)

\* Two endpoints are equal: both absent, or both present and the same instant.
SameEndpoint(a, b) ==
    IF IsNone(a) \/ IsNone(b) THEN IsNone(a) /\ IsNone(b) ELSE SameInstant(a, b)

\* Two ranges have equal starts and equal ends.
SameEndpoints(a, b) ==
    /\ SameEndpoint(a.start_datetime, b.start_datetime)
    /\ SameEndpoint(a.end_datetime, b.end_datetime)

\* C15: a == b is true exactly when a.start equals b.start and a.end equals
\* b.end, two absent endpoints being equal, whatever the format strings, the
\* separator and the elapse flag; a != c is the negation of a == c for every
\* comparand c, and a c that is no range is never equal.
C15_Equality ==
    LET c  == call.args[2]
        eq == c.kind = "DateTimeRange" /\ SameEndpoints(self, c)
    IN  /\ Called("__eq__") => call.ret = Bool(eq)
        /\ Called("__ne__") => call.ret = Bool(~eq)

\* self == c has returned True for a set range self and a range c whose
\* format strings, separator and elapse flag are not those of self.
C15_Witness ==
    /\ Called("__eq__")
    /\ ~Unset(self)
    /\ call.args[2].kind = "DateTimeRange"
    /\ call.args[2].start_time_format # self.start_time_format
    /\ call.args[2].end_time_format # self.end_time_format
    /\ call.args[2].separator # self.separator
    /\ call.args[2].is_output_elapse # self.is_output_elapse
    /\ call.ret = Bool(TRUE)

\* Endpoint b is endpoint a shifted by d (sign = 1) or by -d (sign = -1); an
\* absent endpoint shifted is absent.
ShiftedEndpoint(a, b, d, sign) ==
    IF IsNone(a) THEN IsNone(b)
    ELSE /\ ~IsNone(b)
         /\ SameInstant(b, IF sign > 0 THEN DtAdd(a, d) ELSE DtSubStep(a, d))
         /\ d.kind = "timedelta"
            => LET secs == (b.days - a.days) * SecondsPerDay + (b.seconds - a.seconds)
                   us   == b.microseconds - a.microseconds
                   dsec == sign * (d.days * SecondsPerDay + d.seconds)
                   dus  == sign * d.microseconds
               IN  /\ secs + (us \div UsPerSecond) = dsec + (dus \div UsPerSecond)
                   /\ us % UsPerSecond = dus % UsPerSecond

\* Range r is range o shifted by d or -d, endpoint by endpoint.
ShiftedRange(o, r, d, sign) ==
    /\ r.kind = "DateTimeRange"
    /\ ShiftedEndpoint(o.start_datetime, r.start_datetime, d, sign)
    /\ ShiftedEndpoint(o.end_datetime, r.end_datetime, d, sign)

\* C16: each of +, -, += and -= with a duration d raises TypeError exactly
\* when both endpoints are absent, changing nothing; otherwise every present
\* endpoint is shifted by d (by -d for - and -=) and every absent one stays
\* absent; + and - leave the operand as it was, += and -= change the
\* endpoints of self and nothing else of it.
C16_Shift ==
    LET o    == call.args[1]
        d    == call.args[2]
        sign == IF call.op \in {"__add__", "__iadd__"} THEN 1 ELSE -1
    IN  call.op \in {"__add__", "__sub__", "__iadd__", "__isub__"}
        => /\ Raises(call.ret, "TypeError") <=> IsAbsentRange(o)
           /\ IsRaise(call.ret) => self = o
           /\ ~IsRaise(call.ret) => ShiftedRange(o, call.ret, d, sign)
           /\ call.op \in {"__add__", "__sub__"} => self = o
           /\ (call.op \in {"__iadd__", "__isub__"} /\ ~IsRaise(call.ret))
              => /\ ShiftedRange(o, self, d, sign)
                 /\ self = [o EXCEPT !.start_datetime = self.start_datetime,
                                     !.end_datetime = self.end_datetime]

\* self += d has shifted a range that has a start and no end: the start has
\* moved and there is still no end.
C16_Witness ==
    /\ Called("__iadd__")
    /\ ~IsNone(call.args[1].start_datetime)
    /\ IsNone(call.args[1].end_datetime)
    /\ ~IsNone(self.start_datetime)
    /\ ~SameInstant(self.start_datetime, call.args[1].start_datetime)
    /\ IsNone(self.end_datetime)

\* C17: the range R + d and R - d return has the start_time_format and the
\* end_time_format of R, also when those are not the default.
C17_ShiftKeepsFormats ==
    (call.op \in {"__add__", "__sub__"} /\ ~IsRaise(call.ret))
    => /\ call.ret.start_time_format = self.start_time_format
       /\ call.ret.end_time_format = self.end_time_format

\* The microseconds from instant a to instant b.
MicrosecondsFrom(a, b) ==
    ((b.days - a.days) * SecondsPerDay + (b.seconds - a.seconds)) * UsPerSecond
        + (b.microseconds - a.microseconds)

\* C18: timedelta and get_timedelta_second raise TypeError exactly when an
\* endpoint is absent; otherwise they return end - start, negative for a
\* range whose start is after its end and zero when start == end,
\* get_timedelta_second giving that duration in seconds.
C18_Timedelta ==
    /\ Called("timedelta")
       => /\ Raises(call.ret, "TypeError") <=> Unset(self)
          /\ ~Unset(self)
             => /\ call.ret.kind = "timedelta"
                /\ SameInstant(DtAddTimedelta(self.start_datetime, call.ret),
                               self.end_datetime)
                /\ call.ret.days < 0 <=> Earlier(self.end_datetime, self.start_datetime)
                /\ call.ret = Timedelta(0, 0, 0)
                       <=> SameInstant(self.start_datetime, self.end_datetime)
    /\ Called("get_timedelta_second")
       => /\ Raises(call.ret, "TypeError") <=> Unset(self)
          /\ ~Unset(self)
             => /\ call.ret.kind = "float"
                /\ call.ret.microseconds
                       = MicrosecondsFrom(self.start_datetime, self.end_datetime)

\* get_timedelta_second has returned a negative number of seconds for a range
\* whose start is after its end.
C18_Witness ==
    /\ Called("get_timedelta_second")
    /\ ~Unset(self)
    /\ Earlier(self.end_datetime, self.start_datetime)
    /\ call.ret.kind = "float"
    /\ call.ret.microseconds < 0

\* C19: truncate(p) with p > 0 on a valid range of duration D moves start
\* forward and end backward by p/2 percent of D each; truncate(0) changes
\* nothing; truncate(p) with p < 0 raises ValueError and truncate on an unset
\* range raises TypeError, the endpoints staying as they were.
C19_Truncate ==
    LET o == call.args[1]
        p == call.args[2]
        D == MicrosecondsFrom(o.start_datetime, o.end_datetime)
    IN  Called("truncate")
        => /\ (ValidRange(o) /\ p > 0)
              => /\ IsNone(call.ret)
                 /\ 200 * MicrosecondsFrom(o.start_datetime, self.start_datetime) = p * D
                 /\ 200 * MicrosecondsFrom(self.end_datetime, o.end_datetime) = p * D
           /\ p = 0 => self = o
           /\ (ValidRange(o) /\ p < 0) => Raises(call.ret, "ValueError") /\ self = o
           /\ Unset(o) => Raises(call.ret, "TypeError") /\ self = o

\* C20: whenever set_start_datetime, set_end_datetime or set_time_range
\* raises, both endpoints of the range are what they were before the call,
\* also when set_time_range is given a valid start and an invalid end.
C20_NoPartialMutation ==
    [][(/\ call'.op \in {"set_start_datetime", "set_end_datetime", "set_time_range"}
        /\ IsRaise(call'.ret))
       => /\ self'.start_datetime = self.start_datetime
          /\ self'.end_datetime = self.end_datetime
          /\ x'.start_datetime = x.start_datetime
          /\ x'.end_datetime = x.end_datetime]_vars

\* C21: set_start_datetime(v) with a v that can be normalised succeeds
\* whatever the end is, also when v is after it or it is absent, and changes
\* the start only: end, format strings, separator and elapse flag stay;
\* likewise set_end_datetime; and the constructor takes any pair of
\* endpoints, an inverted one too.
C21_SetEndpoint ==
    [][/\ (call'.op = "set_start_datetime" /\ call'.args[2] # BadStr)
          => /\ IsNone(call'.ret)
             /\ self' = [self EXCEPT !.start_datetime = call'.args[2]]
       /\ (call'.op = "set_end_datetime" /\ call'.args[2] # BadStr)
          => /\ IsNone(call'.ret)
             /\ self' = [self EXCEPT !.end_datetime = call'.args[2]]
       /\ call'.op = "__init__"
          => /\ IsNone(call'.ret)
             /\ self'.start_datetime = call'.args[1]
             /\ self'.end_datetime = call'.args[2]]_vars

\* set_start_datetime has put the start after the end of a range whose
\* format strings are not the default ones, and they still are not.
C21_Witness ==
    /\ Called("set_start_datetime")
    /\ Inverted(self)
    /\ self.start_datetime = call.args[2]
    /\ self.start_time_format # DEFAULT_TIME_FORMAT
    /\ self.end_time_format # DEFAULT_TIME_FORMAT


IsPrefix(a, b) == Len(a) <= Len(b) /\ \A i \in 1 .. Len(a) : a[i] = b[i]

\* The generator has ended: its body returned or raised.
Ended(g) == g.pc \in {"done", "raised"}

\* C23: pulling from a range(step) generator leaves the endpoints of the
\* source range as they are; two generators made from one range with one
\* step agree, under every interleaving of their pulls, on all they have
\* yielded so far, and on the whole sequence and the way it ends once both
\* have ended; a generator that has ended yields nothing more.
C23_IndependentGenerators ==
    [][/\ call'.op = "next" /\ call.op = "idle" => self' = self /\ x' = x
       /\ gen'.pc = "pair"
          => /\ IsPrefix(gen'.first.yielded, gen'.second.yielded)
                \/ IsPrefix(gen'.second.yielded, gen'.first.yielded)
             /\ Ended(gen'.first) /\ Ended(gen'.second)
                => /\ gen'.first.yielded = gen'.second.yielded
                   /\ gen'.first.pc = gen'.second.pc
                   /\ gen'.first.exc = gen'.second.exc
             /\ Ended(gen'.first) => IsPrefix(gen'.second.yielded, gen'.first.yielded)
             /\ Ended(gen'.second) => IsPrefix(gen'.first.yielded, gen'.second.yielded)
       /\ \A c \in Consumers :
             (gen.pc = "pair" /\ gen'.pc = "pair" /\ Ended(gen[c]))
                => /\ gen'[c] = gen[c]
                   /\ (call'.op = "next" /\ call'.args[1] = c)
                         => call'.ret = Raise("StopIteration", "")]_vars

\* The first generator has yielded three values and returned, and a further
\* next() on it has raised StopIteration, while the second, of the same
\* valid range, is suspended at its first value.
C23_Witness ==
    /\ gen.pc = "pair"
    /\ ValidRange(self)
    /\ gen.first.pc = "done" /\ Len(gen.first.yielded) = 3
    /\ gen.second.pc = "suspended" /\ Len(gen.second.yielded) = 1
    /\ Called("next") /\ call.args[1] = "first"
    /\ call.ret = Raise("StopIteration", "")

\* C24: range(step) treats the range as inverted only when both endpoints
\* are present and start > end; every set range with start <= end is
\* iterated forward; and for a non-zero step on a range with an absent
\* endpoint the TypeError of the validation reaches the consumer.
C24_DirectionOfIteration ==
    (Started /\ gen.cmp_step_w_zero # 0)
        => /\ gen.is_inversion
              => ~Unset(self) /\ Earlier(self.end_datetime, self.start_datetime)
           /\ (~Unset(self) /\ NotAfter(self.start_datetime, self.end_datetime))
              => ~gen.is_inversion
           /\ Unset(self)
              => gen.pc = "raised" /\ Raises(gen.exc, "TypeError")


\* C25: range(step) with a step of zero magnitude, timedelta(0) or a
\* relativedelta of zero components, fails with ValueError at the first
\* pull whatever the range is, valid, inverted or with an absent endpoint:
\* the zero check comes before the validation, and nothing is yielded.
C25_ZeroStep ==
    (Started /\ StepSign(gen.step) = 0)
        => /\ gen.pc = "raised"
           /\ gen.exc = Raise("ValueError", "step must be not zero")
           /\ gen.yielded = <<>>

\* A zero step on a range without endpoints: ValueError, not the TypeError
\* of the validation.
C25_Witness ==
    /\ Started
    /\ StepSign(gen.step) = 0
    /\ gen.step.kind = "relativedelta"
    /\ IsNone(self.start_datetime) /\ IsNone(self.end_datetime)
    /\ Raises(gen.exc, "ValueError")


\* C26: for every valid range and every percentage p >= 0 that truncate
\* accepts, the range after truncate(p) is valid still, both endpoints
\* present and start <= end, and its midpoint is where it was.
C26_TruncateKeepsValid ==
    LET o == call.args[1]
        p == call.args[2]
    IN  (Called("truncate") /\ ValidRange(o) /\ p >= 0 /\ IsNone(call.ret))
        => /\ ValidRange(self)
           /\ MicrosecondsFrom(o.start_datetime, self.start_datetime)
                  = MicrosecondsFrom(self.end_datetime, o.end_datetime)


\* C27: what a range(step) generator yields, and where it stops, is fixed
\* by the endpoints of the range when range(step) was called: after any
\* modification of the range (set_start_datetime, set_end_datetime, +=, -=,
\* truncate), before the first pull or between two pulls, the generator has
\* yielded what the generator of an unmodified copy of the range has, and
\* has ended if and as that one has.
C27_FixedAtCall ==
    gen.pc = "live"
        => /\ gen.g.yielded = gen.h.yielded
           /\ gen.g.pc = gen.h.pc
           /\ gen.g.exc = gen.h.exc


\* The instants a quarter of a second apart over the span of the inputs:
\* the endpoints of every range and an instant between any two of them.
Probes == {Datetime(BaseDay, 0, k * (HalfSecond \div 2), "JST") : k \in 0 .. 2 * MaxTick}

\* Instant t lies in the closed interval of range o.
Covers(o, t) == NotAfter(o.start_datetime, t) /\ NotAfter(t, o.end_datetime)

\* Ranges a and b share more than an instant.
OverlapLasts(a, b) == Overlap(a, b) /\ Earlier(OverlapStart(a, b), OverlapEnd(a, b))

\* C28: for valid ranges self and x, self.subtract(x) is a list of at most
\* two ranges, each with both endpoints present, start <= end, and inside
\* self; two of them are in increasing order and apart; none shares more
\* than an instant with x; and every instant of self lies in one of them or
\* in the overlap of self and x.
C28_SubtractPartition ==
    (Called("subtract") /\ ValidRange(self) /\ ValidRange(x))
    => /\ call.ret.kind = "list"
       /\ Len(call.ret.items) <= 2
       /\ \A i \in DOMAIN call.ret.items :
             LET r == call.ret.items[i]
             IN  /\ ~Unset(r)
                 /\ NotAfter(r.start_datetime, r.end_datetime)
                 /\ NotAfter(self.start_datetime, r.start_datetime)
                 /\ NotAfter(r.end_datetime, self.end_datetime)
                 /\ ~OverlapLasts(r, x)
       /\ Len(call.ret.items) = 2
             => Earlier(call.ret.items[1].end_datetime, call.ret.items[2].start_datetime)
       /\ \A t \in Probes :
             Covers(self, t)
                => \/ \E i \in DOMAIN call.ret.items : Covers(call.ret.items[i], t)
                   \/ Overlap(self, x)
                        /\ NotAfter(OverlapStart(self, x), t)
                        /\ NotAfter(t, OverlapEnd(self, x))

\* x, in another timezone than self, covers the start of self and ends
\* inside it: one range is returned, from the end of x to the end of self.
C28_Witness ==
    /\ Called("subtract") /\ ValidRange(self) /\ ValidRange(x)
    /\ self.start_datetime.tzinfo # x.start_datetime.tzinfo
    /\ SameInstant(x.start_datetime, self.start_datetime)
    /\ Earlier(x.start_datetime, x.end_datetime)
    /\ Earlier(x.end_datetime, self.end_datetime)
    /\ IsListOfOne(call.ret, x.end_datetime, self.end_datetime)


\* C29: for every valid range self and instant s, the ranges self.split(s)
\* returns all have start <= end, the first starts at self.start and the
\* last ends at self.end; two ranges returned each last a positive time and
\* meet at s; and the first returned range encompassing the last gives the
\* range from self.start to self.end.
C29_SplitPartition ==
    (Called("split") /\ call.args[1].kind = "datetime" /\ ValidRange(self))
    => /\ call.ret.kind = "list"
       /\ Len(call.ret.items) \in {1, 2}
       /\ \A i \in DOMAIN call.ret.items :
             /\ ~Unset(call.ret.items[i])
             /\ NotAfter(call.ret.items[i].start_datetime, call.ret.items[i].end_datetime)
       /\ SameInstant(call.ret.items[1].start_datetime, self.start_datetime)
       /\ SameInstant(call.ret.items[Len(call.ret.items)].end_datetime, self.end_datetime)
       /\ Len(call.ret.items) = 2
             => /\ Earlier(call.ret.items[1].start_datetime, call.ret.items[1].end_datetime)
                /\ Earlier(call.ret.items[2].start_datetime, call.ret.items[2].end_datetime)
                /\ SameInstant(call.ret.items[1].end_datetime, call.args[1])
                /\ SameInstant(call.ret.items[2].start_datetime, call.args[1])
       /\ IsRangeOf(encompass(call.ret.items[1], call.ret.items[Len(call.ret.items)]),
                    self.start_datetime, self.end_datetime)


\* The whole seconds of a normalized relativedelta without years and months.
SecondsOf(rd) ==
    ((rd.days * HoursPerDay + rd.hours) * MinutesPerHour + rd.minutes) * SecondsPerMinute
        + rd.seconds

\* Relativedelta rd is as long as timedelta td, and of the same sign.
SameDuration(rd, td) ==
    /\ rd.years = 0 /\ rd.months = 0
    /\ (SecondsOf(rd) - (td.days * SecondsPerDay + td.seconds)) * UsPerSecond
           = td.microseconds - rd.microseconds

\* The order of two timedeltas: -1, 0 or 1.
TimedeltaOrder(a, b) == IF TimedeltaLT(a, b) THEN -1 ELSE IF TimedeltaLT(b, a) THEN 1 ELSE 0

\* C30: for every timedelta td, of either sign, with or without a part
\* below the second, _to_norm_relativedelta(td) is the same signed duration
\* as td; so _compare_timedelta(td, 0) is -1, 0 or 1 as td < 0, td == 0 or
\* td > 0, and _compare_relativedelta of two converted timedeltas is the
\* sign of their difference.
C30_TimedeltaConversion ==
    (Started /\ gen.step.kind = "timedelta")
    => /\ SameDuration(_to_norm_relativedelta(gen.step), gen.step)
       /\ gen.cmp_step_w_zero = StepSign(gen.step)
       /\ \A other \in TimedeltaSteps :
             _compare_relativedelta(_to_norm_relativedelta(gen.step),
                                    _to_norm_relativedelta(other))
                 = TimedeltaOrder(gen.step, other)

=============================================================================
